---- MODULE Spec2Model ----
(***************************************************************************)
(* Model of src/app.py: the image normaliser process_image and the batch   *)
(* loop that validates, fetches, normalises and archives every link.       *)
(***************************************************************************)
EXTENDS Integers, Sequences, FiniteSets, TLC

VARIABLES
    links,            \* the list taken from the column (line 91)
    total,            \* len(links) (line 92)
    i,                \* 0-based loop index of enumerate(links)
    pc,               \* position of the script
    content,          \* response.content of the current item
    final_image_data, \* result of process_image for the current item
    valid_count,      \* line 98
    error_count,      \* line 99
    zf,               \* entries written to the ZipFile, in order
    zip_closed,       \* the with-block of line 101 has been left
    progress,         \* values passed to progress_bar.progress, in order
    status_text,      \* last value passed to status_text.text
    fetched,          \* 1-based positions for which requests.get was issued
    summary,          \* the numbers shown by st.success (line 125)
    delivered,        \* what st.download_button received
    image_bytes,      \* argument of the last process_image call
    ret,              \* outcome of the last process_image call
    prev,             \* outcome of the process_image call before it
    calls             \* number of process_image calls made on image_bytes

vars == <<links, total, i, pc, content, final_image_data, valid_count,
          error_count, zf, zip_closed, progress, status_text, fetched,
          summary, delivered, image_bytes, ret, prev, calls>>

batchVars == <<links, total, i, pc, content, final_image_data, valid_count,
               error_count, zf, zip_closed, progress, status_text, fetched,
               summary, delivered>>

-----------------------------------------------------------------------------
(* Bounds *)

MaxLinks == 3
MaxSmallDim == 20
Margin == 2
MaxCalls == 2

-----------------------------------------------------------------------------
(* IEEE-754 binary64 arithmetic, as used by lines 49, 51 and 52.  A float  *)
(* is [m, frac]: m is the significand as a sequence of bits, most          *)
(* significant first, and the value is m / 2^frac.                         *)

MantBits == 53
min_dimension == 1000

Min(a, b) == IF a < b THEN a ELSE b
Max(a, b) == IF a > b THEN a ELSE b

RECURSIVE ToBits(_)
ToBits(n) == IF n = 0 THEN <<>> ELSE Append(ToBits(n \div 2), n % 2)

RECURSIVE FromBits(_)
FromBits(b) ==
    IF b = <<>> THEN 0
    ELSE 2 * FromBits(SubSeq(b, 1, Len(b) - 1)) + b[Len(b)]

\* b without its leading zero bits
StripZeros(b) ==
    IF \A k \in 1..Len(b) : b[k] = 0 THEN <<>>
    ELSE LET f == CHOOSE k \in 1..Len(b) :
                      b[k] = 1 /\ \A j \in 1..(k - 1) : b[j] = 0
         IN SubSeq(b, f, Len(b))

\* b + 1
Inc(b) ==
    IF \A k \in 1..Len(b) : b[k] = 1
    THEN <<1>> \o [k \in 1..Len(b) |-> 0]
    ELSE LET z == CHOOSE k \in 1..Len(b) :
                      b[k] = 0 /\ \A j \in (k + 1)..Len(b) : b[j] = 1
         IN [k \in 1..Len(b) |-> IF k < z THEN b[k] ELSE IF k = z THEN 1 ELSE 0]

HasOne(b) == \E k \in 1..Len(b) : b[k] = 1

\* Round the exact value bits / 2^frac (plus a nonzero remainder below the
\* last bit when sticky) to MantBits significant bits, ties to even.
RoundFloat(bits, frac, sticky) ==
    IF Len(bits) <= MantBits THEN [m |-> bits, frac |-> frac]
    ELSE LET keep == SubSeq(bits, 1, MantBits)
             guard == bits[MantBits + 1]
             rest == sticky \/ HasOne(SubSeq(bits, MantBits + 2, Len(bits)))
             up == guard = 1 /\ (rest \/ keep[MantBits] = 1)
             r == IF up THEN Inc(keep) ELSE keep
             dropped == Len(bits) - MantBits
         IN IF Len(r) > MantBits
            THEN [m |-> SubSeq(r, 1, MantBits), frac |-> frac - dropped - 1]
            ELSE [m |-> r, frac |-> frac - dropped]

\* Arithmetic on the bits goes limb by limb: LimbBits bits at a time.
LimbBits == 8
LimbBase == 256

\* the LimbBits bits of each limb value, zero-padded on the left
LimbTable ==
    [v \in 0..(LimbBase - 1) |->
        LET b == ToBits(v) IN [k \in 1..(LimbBits - Len(b)) |-> 0] \o b]

\* Long division of rem / n (rem < n): c further limbs of the quotient are
\* appended to acc; the result carries the remainder left after them.
RECURSIVE DivLimbs(_, _, _, _)
DivLimbs(acc, rem, n, c) ==
    IF c = 0 THEN [bits |-> acc, rem |-> rem]
    ELSE DivLimbs(acc \o LimbTable[(rem * LimbBase) \div n],
                  (rem * LimbBase) % n, n, c - 1)

Rounded(q, fracBits) == RoundFloat(StripZeros(q.bits), fracBits, q.rem # 0)

\* a / n of two ints (true division, correctly rounded).
TrueDiv(a, n) ==
    LET c == (MantBits + 1 + Len(ToBits(n))) \div LimbBits + 1
    IN Rounded(DivLimbs(ToBits(a \div n), a % n, n, c), c * LimbBits)

\* limb j of bits, counted from the least significant end
Limb(bits, j) ==
    FromBits(SubSeq(bits, Max(1, Len(bits) - LimbBits * (j + 1) + 1),
                    Len(bits) - LimbBits * j))

\* bits * w, exact: limb j and upward, carry coming from the limbs below
RECURSIVE MulLimbs(_, _, _, _)
MulLimbs(bits, w, j, carry) ==
    IF LimbBits * j >= Len(bits) THEN ToBits(carry)
    ELSE MulLimbs(bits, w, j + 1, (Limb(bits, j) * w + carry) \div LimbBase)
         \o LimbTable[(Limb(bits, j) * w + carry) % LimbBase]

MulBits(bits, w) == MulLimbs(bits, w, 0, 0)

\* int * float
FloatMul(w, f) == RoundFloat(StripZeros(MulBits(f.m, w)), f.frac, FALSE)

\* int(float): truncation toward zero
FloatToInt(f) ==
    IF f.frac >= Len(f.m) THEN 0
    ELSE FromBits(SubSeq(f.m, 1, Len(f.m) - f.frac))

\* line 49
scale_factor(width, height) == TrueDiv(min_dimension, Min(width, height))
\* line 51
new_width(width, scale) == FloatToInt(FloatMul(width, scale))
\* line 52
new_height(height, scale) == FloatToInt(FloatMul(height, scale))

\* f < g for two positive floats with full-width significands
FloatLess(f, g) ==
    \/ f.frac > g.frac
    \/ /\ f.frac = g.frac
       /\ \E k \in 1..Len(f.m) :
              f.m[k] < g.m[k] /\ \A j \in 1..(k - 1) : f.m[j] = g.m[j]

-----------------------------------------------------------------------------
(* Byte strings.  A byte string is described by what decoding it yields:   *)
(* kind "image" with the mode and size Image.open reports, or kind "other" *)
(* for bytes PIL cannot identify.  fmt tells the encoder that wrote it and *)
(* sharp how many unsharp-mask passes its pixels went through.             *)

Modes == {"RGB", "RGBA", "P", "L", "LA"}

\* modes the JPEG encoder accepts; img.save raises OSError for the others
JpegModes == {"RGB", "L"}

NotImage == [kind |-> "other", mode |-> "-", w |-> 0, h |-> 0,
             fmt |-> "html", sharp |-> 0]
NoBytes == [kind |-> "other", mode |-> "-", w |-> 0, h |-> 0,
            fmt |-> "none", sharp |-> 0]

SourceImage(mode, w, h) ==
    [kind |-> "image", mode |-> mode, w |-> w, h |-> h,
     fmt |-> "src", sharp |-> 0]

\* img.save(output_buffer, format="JPEG", quality=100, subsampling=0)
JpegBytes(mode, size, sharp) ==
    [kind |-> "image", mode |-> mode, w |-> size[1], h |-> size[2],
     fmt |-> "JPEG", sharp |-> sharp]

\* the step of process_image at which the library raises, if it does
Faults == {"none", "open", "convert", "resize", "filter", "save"}

\* line 47
NeedsResize(width, height) == width < min_dimension \/ height < min_dimension

\* lines 49-55: the size of the resized image
Scaled(width, height, scale) == <<new_width(width, scale), new_height(height, scale)>>
NewSize(width, height) == Scaled(width, height, scale_factor(width, height))

\* a fallback that hands back an empty buffer instead of the input
Fallback_Empty(bytes) == NoBytes

\* lines 71-73
Fallback(bytes) == bytes

NoRet == [called |-> FALSE, out |-> NoBytes, raised |-> FALSE,
          converted |-> FALSE, resized |-> FALSE, sharpened |-> FALSE,
          size |-> <<0, 0>>]

\* what a call leaves behind: the returned bytes (out), the steps that
\* completed, and whether the except branch was taken (raised)
Returned(bytes, mode, size, opened, converted, resized, sharpened, saved) ==
    [called |-> TRUE,
     out |-> IF saved
             THEN JpegBytes(mode, size,
                            bytes.sharp + (IF sharpened THEN 1 ELSE 0))
             ELSE Fallback(bytes),
     raised |-> ~saved,
     converted |-> converted,
     resized |-> resized,
     sharpened |-> sharpened,
     size |-> IF opened THEN size ELSE <<0, 0>>]

\* lines 31-73; fault is the step at which the library raises, if any
process_image(bytes, fault) ==
    LET opened == bytes.kind = "image" /\ fault # "open"
        doConvert == opened /\ bytes.mode \in {"RGBA", "P"}
        converted == doConvert /\ fault # "convert"
        alive1 == opened /\ (doConvert => converted)
        mode == IF converted THEN "RGB" ELSE bytes.mode
        width == bytes.w
        height == bytes.h
        doResize == alive1 /\ NeedsResize(width, height)
        resized == doResize /\ fault # "resize"
        alive2 == alive1 /\ (doResize => resized)
        size == IF resized THEN NewSize(width, height) ELSE <<width, height>>
        sharpened == resized /\ fault # "filter"
        alive3 == alive2 /\ (resized => sharpened)
        saved == alive3 /\ fault # "save" /\ mode \in JpegModes
    IN Returned(bytes, mode, size, opened, converted, resized, sharpened, saved)

-----------------------------------------------------------------------------
(* Cell values and the servers' answers *)

\* a str cell holds its characters; any other cell (a number) is not a str
StrCell(chars) == [isstr |-> TRUE, chars |-> chars]
NumberCell == [isstr |-> FALSE, chars |-> <<>>]

HttpPrefix == <<"h", "t", "t", "p", ":">>
HttpsPrefix == <<"h", "t", "t", "p", "s", ":">>

UrlHttp == StrCell(HttpPrefix \o <<"/", "/", "a">>)
UrlHttps == StrCell(HttpsPrefix \o <<"/", "/", "b">>)
UrlBlankHttp == StrCell(<<" ">> \o HttpPrefix \o <<"/", "/", "c">>)
UrlUpperHttp == StrCell(<<"H", "T", "T", "P", ":", "/", "/", "d">>)

\* str.startswith(tuple of prefixes)
startswith(chars, prefixes) ==
    \E p \in prefixes : Len(chars) >= Len(p) /\ SubSeq(chars, 1, Len(p)) = p

\* line 106, negated
IsFetchable(url) ==
    url.isstr /\ startswith(url.chars, {HttpPrefix, HttpsPrefix})

\* what requests.get / raise_for_status do for a link: status "ok" with the
\* body, or "http_error" (non-2xx) or "timeout" (transport error)
Resp(status, body) == [status |-> status, body |-> body]

Link(url, resp) == [url |-> url, resp |-> resp]

LinkCases ==
    { Link(NumberCell, Resp("timeout", NoBytes)),
      Link(UrlBlankHttp, Resp("ok", SourceImage("RGB", 500, 800))),
      Link(UrlUpperHttp, Resp("ok", SourceImage("RGB", 500, 800))),
      Link(UrlHttp, Resp("timeout", NoBytes)),
      Link(UrlHttp, Resp("ok", NotImage)),
      Link(UrlHttps, Resp("http_error", NotImage)),
      Link(UrlHttps, Resp("ok", SourceImage("RGBA", 500, 800))),
      Link(UrlHttps, Resp("ok", SourceImage("L", 1001, 1600))) }

LinkLists == UNION { [1..n -> LinkCases] : n \in 0..MaxLinks }

-----------------------------------------------------------------------------
(* File names: f"image_{i+1:03d}.jpg", line 115 *)

DigitChars == <<"0", "1", "2", "3", "4", "5", "6", "7", "8", "9">>

RECURSIVE Decimal(_)
Decimal(n) ==
    IF n < 10 THEN <<DigitChars[n + 1]>>
    ELSE Append(Decimal(n \div 10), DigitChars[(n % 10) + 1])

\* format spec 03d: at least three characters, padded with zeros on the left
Format03d(n) ==
    LET d == Decimal(n) IN [k \in 1..(3 - Len(d)) |-> "0"] \o d

NamePrefix == <<"i", "m", "a", "g", "e", "_">>
NameSuffix == <<".", "j", "p", "g">>

\* a name numbered by the rank among the successes instead of the position
filename_ByRank(idx) == NamePrefix \o Format03d(valid_count + 1) \o NameSuffix

\* idx is the 0-based index i of enumerate(links)
filename(idx) == NamePrefix \o Format03d(idx + 1) \o NameSuffix

-----------------------------------------------------------------------------
(* The batch: lines 91-134 *)

NoStatus == [kind |-> "none", n |-> 0, of |-> 0, url |-> NumberCell]
NoSummary == [shown |-> FALSE, total |-> 0, succeeded |-> 0, failed |-> 0]
NotDelivered == [done |-> FALSE, data |-> <<>>, sealed |-> FALSE]

Init ==
    /\ links \in LinkLists
    /\ total = Len(links)
    /\ i = 0
    /\ pc = "loop"
    /\ content = NoBytes
    /\ final_image_data = NoBytes
    /\ valid_count = 0
    /\ error_count = 0
    /\ zf = <<>>
    /\ zip_closed = FALSE
    /\ progress = <<>>
    /\ status_text = NoStatus
    /\ fetched = <<>>
    /\ summary = NoSummary
    /\ delivered = NotDelivered
    /\ image_bytes = NoBytes
    /\ ret = NoRet
    /\ prev = NoRet
    /\ calls = 0

\* lines 102-103: the next item is taken and the status line is set
StartItem ==
    /\ pc = "loop"
    /\ i < total
    /\ status_text' = [kind |-> "processing", n |-> i + 1, of |-> total,
                       url |-> links[i + 1].url]
    /\ pc' = "try"
    /\ UNCHANGED <<links, total, i, content, final_image_data, valid_count,
                   error_count, zf, zip_closed, progress, fetched, summary,
                   delivered, image_bytes, ret, prev, calls>>

\* lines 106-107: continue leaves the try block and the loop body
SkipInvalid ==
    /\ pc = "try"
    /\ ~IsFetchable(links[i + 1].url)
    /\ i' = i + 1
    /\ pc' = "loop"
    /\ UNCHANGED <<links, total, content, final_image_data, valid_count,
                   error_count, zf, zip_closed, progress, status_text,
                   fetched, summary, delivered, image_bytes, ret, prev, calls>>

\* lines 109-110, the request succeeds with a 2xx status
FetchOk ==
    /\ pc = "try"
    /\ IsFetchable(links[i + 1].url)
    /\ links[i + 1].resp.status = "ok"
    /\ fetched' = Append(fetched, i + 1)
    /\ content' = links[i + 1].resp.body
    /\ pc' = "process"
    /\ UNCHANGED <<links, total, i, final_image_data, valid_count,
                   error_count, zf, zip_closed, progress, status_text,
                   summary, delivered, image_bytes, ret, prev, calls>>

\* lines 109-110, requests.get or raise_for_status raises
FetchFail ==
    /\ pc = "try"
    /\ IsFetchable(links[i + 1].url)
    /\ links[i + 1].resp.status # "ok"
    /\ fetched' = Append(fetched, i + 1)
    /\ pc' = "except"
    /\ UNCHANGED <<links, total, i, content, final_image_data, valid_count,
                   error_count, zf, zip_closed, progress, status_text,
                   summary, delivered, image_bytes, ret, prev, calls>>

\* line 113
Process ==
    /\ pc = "process"
    /\ \E fault \in Faults :
          /\ ret' = process_image(content, fault)
          /\ final_image_data' = ret'.out
    /\ image_bytes' = content
    /\ pc' = "write"
    /\ UNCHANGED <<links, total, i, content, valid_count, error_count, zf,
                   zip_closed, progress, status_text, fetched, summary,
                   delivered, prev, calls>>

\* a write that forgets valid_count += 1
Write_NoCount ==
    /\ pc = "write"
    /\ zf' = Append(zf, [name |-> filename(i), data |-> final_image_data])
    /\ pc' = "progress"
    /\ UNCHANGED <<links, total, i, content, final_image_data, valid_count,
                   error_count, zip_closed, progress, status_text, fetched,
                   summary, delivered, image_bytes, ret, prev, calls>>

\* lines 115-117
Write ==
    /\ pc = "write"
    /\ zf' = Append(zf, [name |-> filename(i), data |-> final_image_data])
    /\ valid_count' = valid_count + 1
    /\ pc' = "progress"
    /\ UNCHANGED <<links, total, i, content, final_image_data, error_count,
                   zip_closed, progress, status_text, fetched, summary,
                   delivered, image_bytes, ret, prev, calls>>

\* an except branch that swallows the error without counting it
Except_NoCount ==
    /\ pc = "except"
    /\ pc' = "progress"
    /\ UNCHANGED <<links, total, i, content, final_image_data, valid_count,
                   error_count, zf, zip_closed, progress, status_text,
                   fetched, summary, delivered, image_bytes, ret, prev, calls>>

\* lines 119-120
Except ==
    /\ pc = "except"
    /\ error_count' = error_count + 1
    /\ pc' = "progress"
    /\ UNCHANGED <<links, total, i, content, final_image_data, valid_count,
                   zf, zip_closed, progress, status_text, fetched, summary,
                   delivered, image_bytes, ret, prev, calls>>

\* line 122, then the loop takes the next index
Progress ==
    /\ pc = "progress"
    /\ progress' = Append(progress, TrueDiv(i + 1, total))
    /\ i' = i + 1
    /\ pc' = "loop"
    /\ UNCHANGED <<links, total, content, final_image_data, valid_count,
                   error_count, zf, zip_closed, status_text, fetched,
                   summary, delivered, image_bytes, ret, prev, calls>>

\* line 101: the loop is exhausted and the with block closes the ZipFile
CloseZip ==
    /\ pc = "loop"
    /\ i >= total
    /\ zip_closed' = TRUE
    /\ pc' = "report"
    /\ UNCHANGED <<links, total, i, content, final_image_data, valid_count,
                   error_count, zf, progress, status_text, fetched, summary,
                   delivered, image_bytes, ret, prev, calls>>

\* lines 124-125
Report ==
    /\ pc = "report"
    /\ status_text' = [kind |-> "complete", n |-> 0, of |-> 0,
                       url |-> NumberCell]
    /\ summary' = [shown |-> TRUE, total |-> total,
                   succeeded |-> valid_count, failed |-> error_count]
    /\ pc' = "deliver"
    /\ UNCHANGED <<links, total, i, content, final_image_data, valid_count,
                   error_count, zf, zip_closed, progress, fetched, delivered,
                   image_bytes, ret, prev, calls>>

\* a download button placed inside the loop, under the open ZipFile
Deliver_InLoop ==
    /\ pc \in {"loop", "deliver"}
    /\ ~delivered.done
    /\ delivered' = [done |-> TRUE, data |-> zf, sealed |-> zip_closed]
    /\ pc' = IF pc = "deliver" THEN "done" ELSE pc
    /\ UNCHANGED <<links, total, i, content, final_image_data, valid_count,
                   error_count, zf, zip_closed, progress, status_text,
                   fetched, summary, image_bytes, ret, prev, calls>>

\* lines 127-134
Deliver ==
    /\ pc = "deliver"
    /\ delivered' = [done |-> TRUE, data |-> zf, sealed |-> zip_closed]
    /\ pc' = "done"
    /\ UNCHANGED <<links, total, i, content, final_image_data, valid_count,
                   error_count, zf, zip_closed, progress, status_text,
                   fetched, summary, image_bytes, ret, prev, calls>>

Next ==
    \/ StartItem
    \/ SkipInvalid
    \/ FetchOk
    \/ FetchFail
    \/ Process
    \/ Write
    \/ Except
    \/ Progress
    \/ CloseZip
    \/ Report
    \/ Deliver

Spec == Init /\ [][Next]_vars

-----------------------------------------------------------------------------
(* process_image on its own: every image size and mode of the bounded     *)
(* sets, normalised and then normalised again from its own output.         *)

Dims ==
    (1..MaxSmallDim) \cup {500, 800}
        \cup ((min_dimension - Margin)..(min_dimension + Margin))

InputBytes ==
    {NotImage} \cup {SourceImage(m, w, h) : m \in Modes, w \in Dims, h \in Dims}

InitImg ==
    /\ image_bytes \in InputBytes
    /\ ret = NoRet
    /\ prev = NoRet
    /\ calls = 0
    /\ links = <<>>
    /\ total = 0
    /\ i = 0
    /\ pc = "image"
    /\ content = NoBytes
    /\ final_image_data = NoBytes
    /\ valid_count = 0
    /\ error_count = 0
    /\ zf = <<>>
    /\ zip_closed = FALSE
    /\ progress = <<>>
    /\ status_text = NoStatus
    /\ fetched = <<>>
    /\ summary = NoSummary
    /\ delivered = NotDelivered

\* process_image(image_bytes)
Normalize ==
    /\ calls = 0
    /\ \E fault \in Faults : ret' = process_image(image_bytes, fault)
    /\ calls' = 1
    /\ UNCHANGED <<image_bytes, prev>>
    /\ UNCHANGED batchVars

\* process_image(process_image(...)): the returned bytes are normalised again
Renormalize ==
    /\ calls >= 1
    /\ calls < MaxCalls
    /\ image_bytes' = ret.out
    /\ prev' = ret
    /\ \E fault \in Faults : ret' = process_image(ret.out, fault)
    /\ calls' = calls + 1
    /\ UNCHANGED batchVars

NextImg == Normalize \/ Renormalize

SpecImg == InitImg /\ [][NextImg]_vars

-----------------------------------------------------------------------------
(* Vocabulary of the properties *)

\* the cell at 1-based position k is a str starting with http: or https:
ValidUrl(k) ==
    /\ links[k].url.isstr
    /\ \/ /\ Len(links[k].url.chars) >= 5
          /\ \A c \in 1..5 : links[k].url.chars[c] = HttpPrefix[c]
       \/ /\ Len(links[k].url.chars) >= 6
          /\ \A c \in 1..6 : links[k].url.chars[c] = HttpsPrefix[c]

InvalidItems(n) == {k \in 1..n : ~ValidUrl(k)}
FetchFailedItems(n) == {k \in 1..n : ValidUrl(k) /\ links[k].resp.status # "ok"}
FetchedOkItems(n) == {k \in 1..n : ValidUrl(k) /\ links[k].resp.status = "ok"}

\* no item is being processed: i items are behind, the next not yet taken
BetweenItems == pc \in {"loop", "report", "deliver", "done"}

Digits(name) == SubSeq(name, Len(NamePrefix) + 1, Len(name) - Len(NameSuffix))

IsDigit(c) == \E d \in 1..10 : DigitChars[d] = c
DigitValue(c) == (CHOOSE d \in 1..10 : DigitChars[d] = c) - 1

RECURSIVE ParseDecimal(_)
ParseDecimal(ds) ==
    IF ds = <<>> THEN 0
    ELSE 10 * ParseDecimal(SubSeq(ds, 1, Len(ds) - 1)) + DigitValue(ds[Len(ds)])

\* image_<digits>.jpg with at least three digits, more only when needed
WellFormedName(name) ==
    /\ Len(name) >= Len(NamePrefix) + 3 + Len(NameSuffix)
    /\ SubSeq(name, 1, Len(NamePrefix)) = NamePrefix
    /\ SubSeq(name, Len(name) - Len(NameSuffix) + 1, Len(name)) = NameSuffix
    /\ \A c \in 1..Len(Digits(name)) : IsDigit(Digits(name)[c])
    /\ Len(Digits(name)) > 3 => Digits(name)[1] # "0"

NameIndex(name) == ParseDecimal(Digits(name))

EntriesNamedFor(k) ==
    {j \in 1..Len(zf) : WellFormedName(zf[j].name) /\ NameIndex(zf[j].name) = k}

SeqRange(q) == {q[j] : j \in 1..Len(q)}

FloatOne == TrueDiv(1, 1)

SmallerSide(b) == Min(b.w, b.h)

-----------------------------------------------------------------------------
(* Properties *)

\* C1: once the batch loop has completed, succeeded + failed = total, in the
\* counters and in the summary that is shown.
C1_CountersAddUp ==
    /\ zip_closed => valid_count + error_count = total
    /\ summary.shown => summary.succeeded + summary.failed = summary.total

\* C2: every entry that fails URL validation adds exactly one to failed, is
\* never fetched and gets no archive entry, and the loop goes on to the next.
C2_InvalidCountedAsFailed ==
    /\ BetweenItems =>
          error_count = Cardinality(InvalidItems(i))
                            + Cardinality(FetchFailedItems(i))
    /\ \A k \in InvalidItems(total) :
          k \notin SeqRange(fetched) /\ EntriesNamedFor(k) = {}
    /\ zip_closed => i = total

\* C3: after every item, whatever its outcome, the fraction (i+1)/total is
\* emitted once: the fractions increase strictly, lie in [0,1], number total
\* at completion, and the last one is 1.
C3_ProgressAfterEveryItem ==
    /\ BetweenItems =>
          /\ Len(progress) = i
          /\ \A k \in 1..Len(progress) : progress[k] = TrueDiv(k, total)
    /\ \A k \in 1..Len(progress) :
          /\ ~FloatLess(FloatOne, progress[k])
          /\ k > 1 => FloatLess(progress[k - 1], progress[k])
    /\ (zip_closed /\ total > 0) =>
          /\ Len(progress) = total
          /\ progress[Len(progress)] = FloatOne

\* C4: the archive's entry names are pairwise distinct and the number of
\* entries equals the succeeded counter, during the run and at completion.
C4_ArchiveMatchesSucceeded ==
    /\ \A a, b \in 1..Len(zf) : a # b => zf[a].name # zf[b].name
    /\ Len(zf) = valid_count
    /\ delivered.done => Len(delivered.data) = summary.succeeded

C4_Witness ==
    /\ pc = "done"
    /\ Len(zf) >= 2
    /\ FetchFailedItems(total) # {}

\* C5: a failed fetch of a valid URL adds exactly one to failed, leaves
\* succeeded and the archive alone, does not stop the batch, and the later
\* entries are still processed.
C5_FetchFailureCounted ==
    /\ pc \in {"loop", "try", "process", "write", "except", "progress",
               "report", "deliver", "done"}
    /\ BetweenItems =>
          /\ error_count = Cardinality(FetchFailedItems(i))
          /\ valid_count = Cardinality(FetchedOkItems(i))
          /\ SeqRange(fetched) = FetchFailedItems(i) \cup FetchedOkItems(i)
    /\ \A k \in FetchFailedItems(total) : EntriesNamedFor(k) = {}
    /\ zip_closed => i = total

C5_Witness ==
    /\ pc = "done"
    /\ \E k \in FetchFailedItems(total) :
          \E later \in FetchedOkItems(total) :
              k < later /\ EntriesNamedFor(later) # {}

\* C6: when normalisation fails at any step, process_image returns exactly
\* its input bytes; the batch archives them verbatim under the item's file
\* name and counts the item as succeeded, not as failed.
C6_FallbackArchived ==
    /\ (ret.called /\ ret.raised) => ret.out = image_bytes
    /\ pc = "write" =>
          /\ image_bytes = links[i + 1].resp.body
          /\ final_image_data = ret.out
    /\ (pc = "progress" /\ EntriesNamedFor(i + 1) # {}) =>
          /\ zf[Len(zf)].name = NamePrefix \o Format03d(i + 1) \o NameSuffix
          /\ zf[Len(zf)].data = final_image_data
          /\ ret.raised => zf[Len(zf)].data = links[i + 1].resp.body
    /\ BetweenItems =>
          /\ \A k \in FetchedOkItems(i) :
                links[k].resp.body.kind # "image" =>
                    \E j \in EntriesNamedFor(k) :
                        zf[j].data = links[k].resp.body
          /\ valid_count = Cardinality(FetchedOkItems(i))
          /\ error_count <= Cardinality((1..i) \ FetchedOkItems(i))

C6_Witness ==
    /\ pc = "done"
    /\ \E j \in 1..Len(zf) : zf[j].data = NotImage
    /\ \E j \in 1..Len(zf) :
          zf[j].data.kind = "image" /\ zf[j].data.fmt = "src"
    /\ valid_count = total

\* C7: a resize makes the smaller side exactly 1000 and the larger side at
\* least 1000, the new size being the truncated products with 1000/min(w,h);
\* so every output that is not the fallback has its smaller side >= 1000.
C7_SmallerSideExactly1000 ==
    ret.called =>
        /\ ret.resized =>
              /\ Min(ret.size[1], ret.size[2]) = min_dimension
              /\ Max(ret.size[1], ret.size[2]) >= min_dimension
              /\ ret.size[1] = (image_bytes.w * min_dimension)
                                   \div SmallerSide(image_bytes)
              /\ ret.size[2] = (image_bytes.h * min_dimension)
                                   \div SmallerSide(image_bytes)
        /\ ~ret.raised => SmallerSide(ret.out) >= min_dimension

\* C8: sharpening is applied exactly when a resize occurred, and a resize
\* occurs exactly when width < 1000 or height < 1000; so normalising an
\* image whose smaller side is already >= 1000, and in particular the resized
\* output of an earlier normalisation, resizes nothing and sharpens nothing.
C8_ResizeSharpenIdempotent ==
    ret.called =>
        /\ ret.sharpened => ret.resized
        /\ ret.resized =>
              (image_bytes.w < min_dimension \/ image_bytes.h < min_dimension)
        /\ ~ret.raised =>
              /\ ret.sharpened <=> ret.resized
              /\ ret.resized <=>
                    (image_bytes.w < min_dimension
                        \/ image_bytes.h < min_dimension)
        /\ (image_bytes.kind = "image"
                /\ SmallerSide(image_bytes) >= min_dimension) =>
              (~ret.resized /\ ~ret.sharpened)
        /\ (prev.called /\ prev.resized /\ ~prev.raised) =>
              (~ret.resized /\ ~ret.sharpened)

\* C9: the archive is handed to the download button only after every entry
\* has been processed and the archive has been closed; nothing is written to
\* a closed archive, and nothing is delivered while the loop is running.
C9_DeliveredAfterFinalize ==
    /\ [](delivered.done =>
            /\ zip_closed
            /\ i = total
            /\ delivered.sealed
            /\ delivered.data = zf)
    /\ [](zip_closed => (i = total /\ pc \in {"report", "deliver", "done"}))
    /\ [][zip_closed => (zip_closed' /\ zf' = zf)]_vars

C9_Witness ==
    /\ delivered.done
    /\ Len(delivered.data) >= 2
    /\ Len(delivered.data) < total

\* C10: every archive entry is named image_<k>.jpg, k zero-padded to three
\* digits, k being the 1-based position of its link in the list and not its
\* rank among the successes: names come in strictly increasing k, and
\* skipped or failed positions leave gaps.
C10_NamesFollowPosition ==
    /\ \A j \in 1..Len(zf) :
          /\ WellFormedName(zf[j].name)
          /\ NameIndex(zf[j].name) < 1000 => Len(Digits(zf[j].name)) = 3
          /\ NameIndex(zf[j].name) \in FetchedOkItems(total)
          /\ j > 1 => NameIndex(zf[j - 1].name) < NameIndex(zf[j].name)
    /\ BetweenItems =>
          {NameIndex(zf[j].name) : j \in 1..Len(zf)} = FetchedOkItems(i)

C10_Witness ==
    /\ pc = "done"
    /\ Len(zf) >= 2
    /\ InvalidItems(total) \cup FetchFailedItems(total) # {}
    /\ NameIndex(zf[2].name) > NameIndex(zf[1].name) + 1

====
